---- MODULE Spec2Model ----
(***************************************************************************)
(* Model of the hotload connection hot-swap engine (driver.go): the        *)
(* driver/strategy registries, the hotload driver's Open, and the          *)
(* chanGroup that monitors one location (run, valueChanged,                *)
(* resetConnections, Open, remove, parseValues).                           *)
(***************************************************************************)
EXTENDS Integers, Sequences, FiniteSets, TLC

\* ------------------------------------------------------------------ bounds
MaxConns == 2        \* connections the underlying driver hands out in a run
MaxUpdates == 2      \* values the strategies deliver on update channels in a run
MaxWatchErrs == 1    \* Watch calls that fail in a run
CloseConns == 4      \* connections of the chanGroup whose Closes SpecClose follows

\* ------------------------------------------------- goroutines and inputs
Clients == {"p1", "p2"}

\* Dispatch addresses (the name given to hdriver.Open).
A1 == "s://d/p1"
A2 == "s://d/p2?forceKill=true&sslmode=disable"
A3 == "s://d/p3"
Addrs == {A1, A2, A3}
\* A name url.Parse rejects (invalid URL escape "%zz").
A0 == "s://d/%zz"
\* The names callers give to hdriver.Open.
Names == Addrs \cup {A0}

\* The strategy "s": its Watch returns a value and a channel, or an error,
\* except for the path /p3, where it never returns.
StrategyNames == {"s"}
WatchNeverReturns(pth) == pth = "/p3"

DriverNames == {"d"}
\* The driver.Driver and Strategy values given to the registrations.
Drivers == {"nil", "pq"}
Strategies == {"nil", "fs"}
NoOptions == [k \in {} |-> ""]
DriverOptionSets == {NoOptions, [app |-> "hl"]}

\* Connection strings: a URL (base and query pairs in the order written) or
\* text that is no URL (lib/pq's "host=c" key/value form).
DsnA == [uri |-> TRUE, base |-> "pg://a/db",
         query |-> << <<"sslmode", "require">>, <<"app", "x">> >>]
DsnC == [uri |-> FALSE, base |-> "host=c", query |-> <<>>]
Values == {DsnA, DsnC}
\* What the watched resources hold when Watch is called.
InitialValues == {DsnA}
NoDsn == [uri |-> FALSE, base |-> "", query |-> <<>>]

const_forceKill == "forceKill"

\* --------------------------------------------------------- url helpers
\* url.Parse of the dispatch addresses above (RawQuery as its pairs).
urlParse(name) ==
  CASE name = A1 -> [err |-> FALSE, Scheme |-> "s", Host |-> "d", Path |-> "/p1",
                     RawQuery |-> <<>>]
    [] name = A2 -> [err |-> FALSE, Scheme |-> "s", Host |-> "d", Path |-> "/p2",
                     RawQuery |-> << <<"forceKill", "true">>, <<"sslmode", "disable">> >>]
    [] name = A3 -> [err |-> FALSE, Scheme |-> "s", Host |-> "d", Path |-> "/p3",
                     RawQuery |-> <<>>]
    [] name = A0 -> [err |-> TRUE, Scheme |-> "", Host |-> "", Path |-> "",
                     RawQuery |-> <<>>]

\* url.ParseQuery / URL.Query: key -> the values given for it, in order.
ParseQuery(raw) ==
  [k \in {raw[i][1] : i \in DOMAIN raw} |->
     LET s == SelectSeq(raw, LAMBDA e : e[1] = k)
     IN  [j \in 1..Len(s) |-> s[j][2]]]

\* sort.Strings order of the query keys in use (Values.Encode sorts by key).
KeyOrder == <<"app", "forceKill", "sslmode">>

RECURSIVE EncodeFrom(_, _)
EncodeFrom(values, i) ==
  IF i > Len(KeyOrder) THEN <<>>
  ELSE LET k == KeyOrder[i]
           here == IF k \in DOMAIN values
                   THEN [j \in 1..Len(values[k]) |-> <<k, values[k][j]>>]
                   ELSE <<>>
       IN  here \o EncodeFrom(values, i + 1)

\* url.Values.Encode
Encode(values) == EncodeFrom(values, 1)

\* values.Set(k, v) for every option
SetOptions(values, options) ==
  [k \in DOMAIN values \cup DOMAIN options |->
     IF k \in DOMAIN options THEN <<options[k]>> ELSE values[k]]

mergeConnectionStringOptions(dsn, options) ==
  IF DOMAIN options = {} THEN [err |-> FALSE, dsn |-> dsn]
  ELSE IF ~dsn.uri THEN [err |-> TRUE, dsn |-> NoDsn]
  ELSE [err |-> FALSE,
        dsn |-> [dsn EXCEPT !.query = Encode(SetOptions(ParseQuery(dsn.query), options))]]

\* Mutant: forceKill is set whatever the query says.
parseValues_Always(vs) == TRUE

\* chanGroup.parseValues: the forceKill it leaves in the chanGroup.
parseValues(vs) ==
  IF const_forceKill \in DOMAIN vs THEN vs[const_forceKill][1] = "true" ELSE FALSE

\* ------------------------------------------------------------------ state
VARIABLES
  mu,          \* the package lock: "free" or the goroutine holding it
  sqlDrivers,  \* name -> the registered driverInstance (driver, options)
  strategies,  \* name -> the registered Strategy
  cgroup,      \* hdriver.cgroup: address -> chanGroup
  run,         \* address -> the position of its chanGroup.run goroutine
  cl,          \* client goroutine -> its position in hdriver.Open / Close
  mc,          \* the managedConns created so far
  hist,        \* address -> the values its chanGroup has held, in order
  watchCalls,  \* address -> calls of strategy.Watch made for it
  started,     \* address -> run goroutines started for it
  logs,        \* address -> "connection information changed" events logged
  delivered,   \* values received from the update channels
  panics,      \* the panics the registrations have raised (their messages)
  parentDone,  \* hdriver.ctx, the parent context of the chanGroups, is done
  dueOpens     \* history: the connections opened while the swap that is due
               \* or under way was due (empty where it is not recorded)

vars == <<mu, sqlDrivers, strategies, cgroup, run, cl, mc, hist,
          watchCalls, started, logs, delivered, panics, parentDone, dueOpens>>

\* A caller at rest: err is the error its last hdriver.Open returned, empty
\* for nil, before its first call and after a Close.
Idle == [pc |-> "idle", name |-> "", conn |-> 0, dsn |-> NoDsn, err |-> ""]

\* hdriver.Open returns err to its caller.
Return(err) == [Idle EXCEPT !.err = err]
NoRun == [pc |-> "none", v |-> NoDsn, i |-> 0]

Init ==
  /\ mu = "free"
  /\ sqlDrivers = [n \in {} |-> [driver |-> "nil", options |-> NoOptions]]
  /\ strategies = [n \in {} |-> "nil"]
  /\ cgroup = [a \in {} |-> 0]
  /\ run = [a \in Addrs |-> NoRun]
  /\ cl = [p \in Clients |-> Idle]
  /\ mc = <<>>
  /\ hist = [a \in Addrs |-> <<>>]
  /\ watchCalls = [a \in Addrs |-> 0]
  /\ started = [a \in Addrs |-> 0]
  /\ logs = [a \in Addrs |-> 0]
  /\ delivered = 0
  /\ panics = {}
  /\ parentDone = FALSE
  /\ dueOpens = {}

\* ----------------------------------------------------------- registries
\* Mutant: no name counts as registered already.
dup_Never(registry, name) == FALSE

\* _, dup := sqlDrivers[name] / strategies[name]
dup(registry, name) == name \in DOMAIN registry

\* registry[name] = entry
Store(registry, name, entry) ==
  [n \in DOMAIN registry \cup {name} |-> IF n = name THEN entry ELSE registry[n]]

\* Lines 107-120: the registration of a driver that is not nil under a new name.
RegisterSQLDriver(name, driver, options) ==
  /\ mu = "free"
  /\ driver # "nil"
  /\ ~dup(sqlDrivers, name)
  /\ sqlDrivers' = Store(sqlDrivers, name, [driver |-> driver, options |-> options])
  /\ UNCHANGED <<panics, parentDone, dueOpens, mu, strategies, cgroup, run, cl, mc, hist,
                 watchCalls, started, logs, delivered>>

\* Lines 107-114: the registration panics, for a nil driver first, else for
\* a name registered already; the deferred mu.Unlock runs.
RegisterSQLDriverPanics(name, driver) ==
  /\ mu = "free"
  /\ driver = "nil" \/ dup(sqlDrivers, name)
  /\ panics' = panics \cup {IF driver = "nil"
                            THEN <<"hotload: Register driver is nil", "">>
                            ELSE <<"hotload: Register called twice for driver", name>>}
  /\ UNCHANGED <<parentDone, dueOpens, mu, sqlDrivers, strategies, cgroup, run, cl, mc, hist,
                 watchCalls, started, logs, delivered>>

\* Lines 147-155: the registration of a strategy that is not nil under a new name.
RegisterStrategy(name, strategy) ==
  /\ mu = "free"
  /\ strategy # "nil"
  /\ ~dup(strategies, name)
  /\ strategies' = Store(strategies, name, strategy)
  /\ UNCHANGED <<panics, parentDone, dueOpens, mu, sqlDrivers, cgroup, run, cl, mc, hist,
                 watchCalls, started, logs, delivered>>

\* Lines 147-154: the registration panics; the deferred mu.Unlock runs.
RegisterStrategyPanics(name, strategy) ==
  /\ mu = "free"
  /\ strategy = "nil" \/ dup(strategies, name)
  /\ panics' = panics \cup {IF strategy = "nil"
                            THEN <<"hotload: RegisterStrategy strategy is nil", "">>
                            ELSE <<"hotload: RegisterStrategy called twice for strategy", name>>}
  /\ UNCHANGED <<parentDone, dueOpens, mu, sqlDrivers, strategies, cgroup, run, cl, mc, hist,
                 watchCalls, started, logs, delivered>>

\* ------------------------------------------------------- hdriver.Open
\* Mutant: hdriver.Open does not wait for the package lock.
muLock_NoWait == TRUE

\* mu.Lock(): the caller waits until the package lock is free.
muLock == mu = "free"

\* Mutant: the lookup never finds the chanGroup.
HasCgroup_Never(name) == FALSE

\* Mutant: an address counts as having its chanGroup once Watch was called.
HasCgroup_OnceWatched(name) == watchCalls[name] > 0

\* cgroup, ok := h.cgroup[name]
HasCgroup(name) == name \in DOMAIN cgroup

\* Mutant: Open keeps using the value Watch returned at creation.
OpenValue_Initial(a) == hist[a][1]

\* The value chanGroup.Open merges the driver options into.
OpenValue(a) == cgroup[a].value

\* The options chanGroup.Open merges into the value.
OpenOptions(a) == cgroup[a].sqlDriver.options

\* Lines 297-300: a caller enters hdriver.Open(name); the error of url.Parse
\* is returned as it is, otherwise the caller goes on to mu.Lock().
OpenCall(p, name) ==
  /\ cl[p].pc = "idle"
  /\ IF urlParse(name).err
     THEN cl' = [cl EXCEPT ![p] = Return("url.Error")]
     ELSE cl' = [cl EXCEPT ![p] = [Idle EXCEPT !.pc = "Lock", !.name = name]]
  /\ UNCHANGED <<panics, parentDone, dueOpens, mu, sqlDrivers, strategies, cgroup, run, mc, hist,
                 watchCalls, started, logs, delivered>>

\* Mutant: the driver is looked up before the strategy.
lookupErr_DriverFirst(uri) ==
  IF uri.Host \notin DOMAIN sqlDrivers THEN "ErrUnknownDriver"
  ELSE IF uri.Scheme \notin DOMAIN strategies THEN "ErrUnsupportedStrategy"
  ELSE ""

\* Lines 307-314: the error of the strategy and driver lookups, "" for none.
lookupErr(uri) ==
  IF uri.Scheme \notin DOMAIN strategies THEN "ErrUnsupportedStrategy"
  ELSE IF uri.Host \notin DOMAIN sqlDrivers THEN "ErrUnknownDriver"
  ELSE ""

\* Lines 301-316: take the package lock, look the chanGroup up; without one,
\* resolve the strategy and the driver (an error returns, the deferred
\* mu.Unlock runs) and call Watch.
OpenLookup(p) ==
  LET name == cl[p].name
      uri == urlParse(name)
  IN
  /\ cl[p].pc = "Lock"
  /\ muLock
  /\ IF HasCgroup(name)
     THEN /\ cl' = [cl EXCEPT ![p].pc = "cgOpen"]
          /\ mu' = p
          /\ UNCHANGED watchCalls
     ELSE IF lookupErr(uri) # ""
     THEN /\ cl' = [cl EXCEPT ![p] = Return(lookupErr(uri))]
          /\ UNCHANGED <<mu, watchCalls>>
     ELSE /\ cl' = [cl EXCEPT ![p].pc = "Watch"]
          /\ mu' = p
          /\ watchCalls' = [watchCalls EXCEPT ![name] = @ + 1]
  /\ UNCHANGED <<panics, parentDone, dueOpens, sqlDrivers, strategies, cgroup, run, mc, hist,
                 started, logs, delivered>>

\* The Watch calls that have returned an error: those made that neither
\* started a chanGroup nor are still running.
RECURSIVE SumErrs(_)
SumErrs(S) ==
  IF S = {} THEN 0
  ELSE LET a == CHOOSE x \in S : TRUE
       IN  watchCalls[a] - started[a]
           - Cardinality({p \in Clients : cl[p].pc = "Watch" /\ cl[p].name = a})
           + SumErrs(S \ {a})

WatchErrs == SumErrs(Addrs)

\* strategy.Watch returned an error: hdriver.Open returns it.
WatchFails(p) ==
  LET name == cl[p].name IN
  /\ cl[p].pc = "Watch"
  /\ ~WatchNeverReturns(urlParse(name).Path)
  /\ WatchErrs < MaxWatchErrs
  /\ cl' = [cl EXCEPT ![p] = Return("watchErr")]
  /\ mu' = "free"
  /\ UNCHANGED <<panics, parentDone, dueOpens, sqlDrivers, strategies, cgroup, run, mc, hist,
                 watchCalls, started, logs, delivered>>

\* strategy.Watch returned value and channel: lines 320-333 build the
\* chanGroup, parse the query, store it under name and start run.
WatchReturns(p, value) ==
  LET name == cl[p].name
      uri == urlParse(name)
      new == [value |-> value, ctx |-> 1, cancelled |-> {},
              sqlDriver |-> sqlDrivers[uri.Host], mu |-> "free",
              forceKill |-> parseValues(ParseQuery(uri.RawQuery)),
              conns |-> <<>>]
  IN
  /\ cl[p].pc = "Watch"
  /\ ~WatchNeverReturns(uri.Path)
  /\ cgroup' = [a \in DOMAIN cgroup \cup {name} |->
                  IF a = name THEN new ELSE cgroup[a]]
  /\ run' = [run EXCEPT ![name] = [NoRun EXCEPT !.pc = "select"]]
  /\ started' = [started EXCEPT ![name] = @ + 1]
  /\ hist' = [hist EXCEPT ![name] = <<value>>]
  /\ cl' = [cl EXCEPT ![p].pc = "cgOpen"]
  /\ UNCHANGED <<panics, parentDone, dueOpens, mu, sqlDrivers, strategies, mc, watchCalls, logs, delivered>>

\* ----------------------------------------------------- chanGroup.Open
\* Mutant: cg.mu stays locked when Open returns.
Unlock_Skipped(cg) == cg

\* defer cg.mu.Unlock() of chanGroup.Open, run at its return.
Unlock(cg) == [cg EXCEPT !.mu = "free"]

\* Mutant: chanGroup.Open does not wait for cg.mu.
OpenLock_NoWait(a) == TRUE

\* cg.mu.Lock() of chanGroup.Open: the caller waits until cg.mu is free.
OpenLock(a) == cgroup[a].mu = "free"

\* Lines 257-262: take cg.mu and merge the options into the current value;
\* a merge error returns at once (both deferred unlocks run).
cgOpen(p) ==
  LET a == cl[p].name
      m == mergeConnectionStringOptions(OpenValue(a), OpenOptions(a))
  IN
  /\ cl[p].pc = "cgOpen"
  /\ OpenLock(a)
  /\ IF m.err
     THEN /\ cl' = [cl EXCEPT ![p] = Return("mergeErr")]
          /\ mu' = "free"
          /\ UNCHANGED cgroup
     ELSE /\ cl' = [cl EXCEPT ![p].pc = "driverOpen", ![p].dsn = m.dsn]
          /\ cgroup' = [cgroup EXCEPT ![a].mu = p]
          /\ UNCHANGED mu
  /\ UNCHANGED <<panics, parentDone, dueOpens, sqlDrivers, strategies, run, mc, hist, watchCalls,
                 started, logs, delivered>>

\* Lines 263-266: the underlying driver's Open returned an error.
driverOpenFails(p) ==
  LET a == cl[p].name IN
  /\ cl[p].pc = "driverOpen"
  /\ cgroup' = [cgroup EXCEPT ![a] = Unlock(@)]
  /\ mu' = "free"
  /\ cl' = [cl EXCEPT ![p] = Return("driverErr")]
  /\ UNCHANGED <<panics, parentDone, dueOpens, sqlDrivers, strategies, run, mc, hist, watchCalls,
                 started, logs, delivered>>

\* newManagedConn(cg.ctx, conn, cg.remove), with what the claims need to know
\* of its history: the values its chanGroup had held when it was opened (ver)
\* and the run goroutines started for its address by then (inc).
newManagedConn(a, dsn) ==
  [cg |-> a, ctx |-> cgroup[a].ctx, dsn |-> dsn, closed |-> FALSE,
   reset |-> FALSE,
   ver |-> Len(hist[a]), inc |-> started[a]]

\* Lines 263-271: the underlying driver opened a connection with the merged
\* string; wrap it, append it to cg.conns, return it.
driverOpenReturns(p) ==
  LET a == cl[p].name IN
  /\ cl[p].pc = "driverOpen"
  /\ Len(mc) < MaxConns
  /\ mc' = Append(mc, newManagedConn(a, cl[p].dsn))
  /\ cgroup' = [cgroup EXCEPT ![a] = Unlock([@ EXCEPT !.conns = Append(@, Len(mc) + 1)])]
  /\ mu' = "free"
  /\ cl' = [cl EXCEPT ![p] = Return("")]
  /\ UNCHANGED <<panics, parentDone, sqlDrivers, strategies, run, hist, watchCalls,
                 started, logs, delivered>>

\* ---------------------------------------------------------- managedConn
\* The goroutines that can be inside managedConn.Close: a client, or the run
\* goroutine of an address (named by the address) from resetConnections.
Goroutines == Clients \cup Addrs

ClosePc(g) == IF g \in Clients THEN cl[g].pc ELSE run[g].pc

\* The connection whose Close goroutine g is executing.
CloseConn(g) == IF g \in Clients THEN cl[g].conn ELSE cgroup[g].conns[run[g].i]

\* Close returned: a client is done; resetConnections goes on with the next
\* connection of its range.
CloseReturn(g) ==
  IF g \in Clients
  THEN cl' = [cl EXCEPT ![g] = Idle] /\ UNCHANGED run
  ELSE run' = [run EXCEPT ![g].pc = "reset", ![g].i = @ + 1] /\ UNCHANGED cl

\* managedConn.Close does two things, in an order the design leaves open: the
\* afterClose callback (chanGroup.remove, which waits for cg.mu) and the
\* underlying conn.Close. "afterClose_1": the callback comes first and the
\* underlying Close follows it; "afterClose_2": the underlying connection was
\* closed on entry and the callback follows.
CloseOrders == {"afterClose_1", "afterClose_2"}

\* The connections after goroutine-independent entry into Close in the given
\* order: the underlying connection is closed at once when it comes first.
CloseEnter(conns, c, order) ==
  IF order = "afterClose_2" THEN [conns EXCEPT ![c].closed = TRUE] ELSE conns

\* managedConn.Reset(true)
Reset(conns, c) == [conns EXCEPT ![c].reset = TRUE]

\* A holder calls Close on a connection it was given.
CloseCall(p, c) ==
  /\ cl[p].pc = "idle"
  /\ c \in DOMAIN mc
  /\ \E order \in CloseOrders :
       /\ mc' = CloseEnter(mc, c, order)
       /\ cl' = [cl EXCEPT ![p] = [Idle EXCEPT !.pc = order, !.conn = c]]
  /\ UNCHANGED <<panics, parentDone, dueOpens, mu, sqlDrivers, strategies, cgroup, run, hist, watchCalls,
                 started, logs, delivered>>

\* Mutant: the slice is cut at the entry found, the tail is lost.
remove_Truncate(conns, conn) ==
  IF \E i \in DOMAIN conns : conns[i] = conn
  THEN LET i == CHOOSE j \in DOMAIN conns : conns[j] = conn
       IN  SubSeq(conns, 1, i - 1)
  ELSE conns

\* chanGroup.remove's search: conns without the first entry that is conn.
remove(conns, conn) ==
  IF \E i \in DOMAIN conns : conns[i] = conn
  THEN LET i == CHOOSE j \in DOMAIN conns :
                  conns[j] = conn /\ \A k \in 1..(j - 1) : conns[k] # conn
       IN  SubSeq(conns, 1, i - 1) \o SubSeq(conns, i + 1, Len(conns))
  ELSE conns

\* cg.mu.Lock() of chanGroup.remove: the caller waits until cg.mu is free,
\* whoever holds it (sync.RWMutex is not reentrant).
removeLock(a) == cgroup[a].mu = "free"

\* The afterClose callback: chanGroup.remove(conn), lines 274-283, run by the
\* goroutine that called Close; then the rest of Close, which waits for nothing.
afterClose(g) ==
  LET c == CloseConn(g)
      a == mc[c].cg
  IN
  /\ ClosePc(g) \in CloseOrders
  /\ removeLock(a)
  /\ cgroup' = [cgroup EXCEPT ![a].conns = remove(@, c)]
  /\ mc' = [mc EXCEPT ![c].closed = TRUE]
  /\ CloseReturn(g)
  /\ UNCHANGED <<panics, parentDone, dueOpens, mu, sqlDrivers, strategies, hist, watchCalls, started, logs, delivered>>

\* ------------------------------------------------------- chanGroup.run
\* Mutant: the context in use is not cancelled.
cancel_Skipped(cg) == cg

\* cg.cancel(): the context in use is cancelled.
cancel(cg) == [cg EXCEPT !.cancelled = @ \cup {cg.ctx}]

\* Mutant: no received value is taken for the current one.
sameValue_Never(a, v) == FALSE

\* if v == cg.value: the update is the same, ignore it.
sameValue(a, v) == v = cgroup[a].value

\* case v := <-cg.values (lines 203-208)
runSelect(a, v) ==
  /\ run[a].pc = "select"
  /\ delivered < MaxUpdates
  /\ delivered' = delivered + 1
  /\ IF sameValue(a, v)
     THEN UNCHANGED run
     ELSE run' = [run EXCEPT ![a].v = v, ![a].pc = "valueChanged"]
  /\ UNCHANGED <<panics, parentDone, dueOpens, mu, sqlDrivers, strategies, cgroup, cl, mc, hist,
                 watchCalls, started, logs>>

\* valueChanged, lines 215-218: take cg.mu, cancel the context, derive a new one.
valueChanged(a) ==
  /\ run[a].pc = "valueChanged"
  /\ cgroup[a].mu = "free"
  /\ cgroup' = [cgroup EXCEPT ![a] = [cancel(@) EXCEPT !.mu = a, !.ctx = @ + 1]]
  /\ run' = [run EXCEPT ![a].pc = "reset", ![a].i = 1]
  /\ UNCHANGED <<panics, parentDone, dueOpens, mu, sqlDrivers, strategies, cl, mc, hist, watchCalls,
                 started, logs, delivered>>

\* Mutant: the range body never runs.
resetMore_Never(a) == FALSE

\* for _, c := range cg.conns: is there a next connection
resetMore(a) == run[a].i <= Len(cgroup[a].conns)

\* Mutant: the range runs over the connections of every chanGroup.
resetConn_Any(a, i) == i

\* the connection c of the range's i-th round
resetConn(a, i) == cgroup[a].conns[i]

\* Mutant: the connection is closed whatever forceKill says.
killOnReset_Always(a) == TRUE

\* if cg.forceKill
killOnReset(a) == cgroup[a].forceKill

\* resetConnections, lines 225-232: one round of the range.
resetConnections(a) ==
  /\ run[a].pc = "reset"
  /\ resetMore(a)
  /\ IF killOnReset(a)
     THEN \E order \in CloseOrders :
            /\ mc' = CloseEnter(Reset(mc, resetConn(a, run[a].i)),
                                resetConn(a, run[a].i), order)
            /\ run' = [run EXCEPT ![a].pc = order]
     ELSE /\ mc' = Reset(mc, resetConn(a, run[a].i))
          /\ run' = [run EXCEPT ![a].i = @ + 1]
  /\ UNCHANGED <<panics, parentDone, dueOpens, mu, sqlDrivers, strategies, cgroup, cl, hist, watchCalls,
                 started, logs, delivered>>

\* Lines 234, 221-222 and 209: the range is over; empty cg.conns, store the
\* value, release cg.mu; back in run, log "connection information changed".
valueChangedReturn(a) ==
  /\ run[a].pc = "reset"
  /\ ~resetMore(a)
  /\ cgroup' = [cgroup EXCEPT ![a].conns = <<>>, ![a].value = run[a].v,
                              ![a].mu = "free"]
  /\ hist' = [hist EXCEPT ![a] = Append(@, run[a].v)]
  /\ logs' = [logs EXCEPT ![a] = @ + 1]
  /\ run' = [run EXCEPT ![a] = [NoRun EXCEPT !.pc = "select"]]
  /\ UNCHANGED <<panics, parentDone, mu, sqlDrivers, strategies, cl, mc, watchCalls,
                 started, delivered>>

\* hdriver.ctx is cancelled. The context that init gives the driver (line 171)
\* is context.Background(), which never is: this is a step of an hdriver made
\* with a context that can be cancelled, as the parentCtx field allows.
CancelParent ==
  /\ ~parentDone
  /\ parentDone' = TRUE
  /\ UNCHANGED <<mu, sqlDrivers, strategies, cgroup, run, cl, mc, hist,
                 watchCalls, started, logs, delivered, panics, dueOpens>>

\* ctx.Done() is closed for the context ctx of the chanGroup of a: its cancel
\* was called, or hdriver.ctx, from which context.WithCancel derived it
\* (lines 218, 320), is cancelled.
ctxDone(a, ctx) == parentDone \/ ctx \in cgroup[a].cancelled

\* case <-cg.parentCtx.Done() (lines 199-202): cancel the context, log, return.
runDone(a) ==
  /\ run[a].pc = "select"
  /\ parentDone
  /\ cgroup' = [cgroup EXCEPT ![a] = cancel(@)]
  /\ run' = [run EXCEPT ![a] = [NoRun EXCEPT !.pc = "done"]]
  /\ UNCHANGED <<panics, parentDone, dueOpens, mu, sqlDrivers, strategies, cl, mc,
                 hist, watchCalls, started, logs, delivered>>

\* ---------------------------------------------------------------- system
Next ==
  \/ \E n \in DriverNames, d \in Drivers, o \in DriverOptionSets :
       RegisterSQLDriver(n, d, o)
  \/ \E n \in StrategyNames, st \in Strategies : RegisterStrategy(n, st)
  \/ \E p \in Clients, name \in Names : OpenCall(p, name)
  \/ \E p \in Clients : OpenLookup(p)
  \/ \E p \in Clients : WatchFails(p)
  \/ \E p \in Clients, v \in InitialValues : WatchReturns(p, v)
  \/ \E p \in Clients : cgOpen(p)
  \/ \E p \in Clients : driverOpenFails(p)
  \/ \E p \in Clients : driverOpenReturns(p) /\ UNCHANGED dueOpens
  \/ \E p \in Clients, c \in 1..MaxConns : CloseCall(p, c)
  \/ \E g \in Goroutines : afterClose(g)
  \/ \E a \in Addrs, v \in Values : runSelect(a, v)
  \/ \E a \in Addrs : valueChanged(a)
  \/ \E a \in Addrs : resetConnections(a)
  \/ \E a \in Addrs : valueChangedReturn(a) /\ UNCHANGED dueOpens

Spec == Init /\ [][Next]_vars

\* The registrations, with those that panic (the panic recovered by the
\* caller), and the Opens that come before, between and after them.
NextReg ==
  \/ \E n \in DriverNames, d \in Drivers, o \in DriverOptionSets :
       RegisterSQLDriver(n, d, o)
  \/ \E n \in DriverNames, d \in Drivers : RegisterSQLDriverPanics(n, d)
  \/ \E n \in StrategyNames, st \in Strategies : RegisterStrategy(n, st)
  \/ \E n \in StrategyNames, st \in Strategies : RegisterStrategyPanics(n, st)
  \/ \E p \in Clients, name \in Names : OpenCall(p, name)
  \/ \E p \in Clients : OpenLookup(p)
  \/ \E p \in Clients : WatchFails(p)
  \/ \E p \in Clients, v \in InitialValues : WatchReturns(p, v)
  \/ \E p \in Clients : cgOpen(p)
  \/ \E p \in Clients : driverOpenFails(p)
  \/ \E p \in Clients : driverOpenReturns(p) /\ UNCHANGED dueOpens

SpecReg == Init /\ [][NextReg]_vars

\* The chanGroups of s://d/p1 and s://d/p2 (no Watch fails or hangs), with
\* the history of the connections opened while a swap was due.
SwapNames == {A1, A2}

\* The swap of a is due: run has received a changed value and its
\* valueChanged has not yet got cg.mu.
SwapDue(a) == run[a].pc = "valueChanged"

NextSwap ==
  \/ \E n \in DriverNames, d \in Drivers, o \in DriverOptionSets :
       RegisterSQLDriver(n, d, o)
  \/ \E n \in StrategyNames, st \in Strategies : RegisterStrategy(n, st)
  \/ \E p \in Clients, name \in SwapNames : OpenCall(p, name)
  \/ \E p \in Clients : OpenLookup(p)
  \/ \E p \in Clients, v \in InitialValues : WatchReturns(p, v)
  \/ \E p \in Clients : cgOpen(p)
  \/ \E p \in Clients : driverOpenFails(p)
  \/ \E p \in Clients :
       /\ driverOpenReturns(p)
       /\ dueOpens' = IF SwapDue(cl[p].name) THEN dueOpens \cup {Len(mc) + 1}
                                             ELSE dueOpens
  \/ \E p \in Clients, c \in 1..MaxConns : CloseCall(p, c)
  \/ \E g \in Goroutines : afterClose(g)
  \/ \E a \in Addrs, v \in Values : runSelect(a, v)
  \/ \E a \in Addrs : valueChanged(a)
  \/ \E a \in Addrs : resetConnections(a)
  \/ \E a \in Addrs :
       /\ valueChangedReturn(a)
       /\ dueOpens' = {c \in dueOpens : mc[c].cg # a}

SpecSwap == Init /\ [][NextSwap]_vars

\* The chanGroups of s://d/p1 and s://d/p2 under an hdriver whose context can
\* be cancelled, with one caller. The strategy and the driver return from
\* every call, every goroutine that can take a step takes one in the end, a
\* goroutine waiting for a lock gets it if it is free again and again
\* (sync.Mutex hands the lock to starving waiters), and select takes a case
\* that is ready again and again.
ParentClients == {"p1"}

NextParent ==
  \/ \E n \in DriverNames, d \in Drivers, o \in DriverOptionSets :
       RegisterSQLDriver(n, d, o)
  \/ \E n \in StrategyNames, st \in Strategies : RegisterStrategy(n, st)
  \/ \E p \in ParentClients, name \in SwapNames : OpenCall(p, name)
  \/ \E p \in ParentClients : OpenLookup(p)
  \/ \E p \in ParentClients, v \in InitialValues : WatchReturns(p, v)
  \/ \E p \in ParentClients : cgOpen(p)
  \/ \E p \in ParentClients : driverOpenFails(p)
  \/ \E p \in ParentClients : driverOpenReturns(p) /\ UNCHANGED dueOpens
  \/ \E p \in ParentClients, c \in 1..MaxConns : CloseCall(p, c)
  \/ \E g \in Goroutines : afterClose(g)
  \/ \E a \in Addrs, v \in Values : runSelect(a, v)
  \/ \E a \in Addrs : valueChanged(a)
  \/ \E a \in Addrs : resetConnections(a)
  \/ \E a \in Addrs : valueChangedReturn(a) /\ UNCHANGED dueOpens
  \/ CancelParent
  \/ \E a \in Addrs : runDone(a)

Fairness ==
  /\ \A p \in Clients :
       /\ SF_vars(OpenLookup(p))
       /\ WF_vars(\E v \in InitialValues : WatchReturns(p, v))
       /\ SF_vars(cgOpen(p))
       /\ WF_vars(driverOpenFails(p) \/ (driverOpenReturns(p) /\ UNCHANGED dueOpens))
  /\ \A g \in Goroutines : SF_vars(afterClose(g))
  /\ \A a \in Addrs :
       /\ SF_vars(valueChanged(a))
       /\ WF_vars(resetConnections(a))
       /\ WF_vars(valueChangedReturn(a) /\ UNCHANGED dueOpens)
       /\ SF_vars(runDone(a))

SpecParent == Init /\ [][NextParent]_vars /\ Fairness

\* The one address without forceKill and with a Watch that returns, with the
\* registrations, both callers and the run goroutine, under the fairness
\* above for them.
LiveNames == {A1}
\* The registered options there: with them the merge succeeds on a URL value
\* and fails on a key/value one.
LiveOptionSets == {[app |-> "hl"]}

NextLive ==
  \/ \E n \in DriverNames, d \in Drivers, o \in LiveOptionSets :
       RegisterSQLDriver(n, d, o)
  \/ \E n \in StrategyNames, st \in Strategies : RegisterStrategy(n, st)
  \/ \E p \in Clients, name \in LiveNames : OpenCall(p, name)
  \/ \E p \in Clients : OpenLookup(p)
  \/ \E p \in Clients : WatchFails(p)
  \/ \E p \in Clients, v \in InitialValues : WatchReturns(p, v)
  \/ \E p \in Clients : cgOpen(p)
  \/ \E p \in Clients : driverOpenFails(p)
  \/ \E p \in Clients : driverOpenReturns(p) /\ UNCHANGED dueOpens
  \/ \E p \in Clients, c \in 1..MaxConns : CloseCall(p, c)
  \/ \E g \in Goroutines : afterClose(g)
  \/ \E a \in Addrs, v \in Values : runSelect(a, v)
  \/ \E a \in Addrs : valueChanged(a)
  \/ \E a \in Addrs : resetConnections(a)
  \/ \E a \in Addrs : valueChangedReturn(a) /\ UNCHANGED dueOpens

FairnessLive ==
  /\ \A p \in Clients :
       /\ SF_vars(OpenLookup(p))
       /\ WF_vars(WatchFails(p) \/ \E v \in InitialValues : WatchReturns(p, v))
       /\ SF_vars(cgOpen(p))
       /\ WF_vars(driverOpenFails(p) \/ (driverOpenReturns(p) /\ UNCHANGED dueOpens))
       /\ SF_vars(afterClose(p))
  /\ \A a \in LiveNames :
       /\ SF_vars(valueChanged(a))
       /\ WF_vars(resetConnections(a))
       /\ WF_vars(valueChangedReturn(a) /\ UNCHANGED dueOpens)

SpecLive == Init /\ [][NextLive]_vars /\ FairnessLive

\* The Closes of the connections of one chanGroup: s://d/p1 after its first
\* swap, with CloseConns connections made so far, the first k before the swap
\* (invalid, dropped from cg.conns by it) and the others after it.
InitClose ==
  \E k \in 0..CloseConns :
    /\ mu = "free"
    /\ sqlDrivers = [n \in DriverNames |-> [driver |-> "pq", options |-> NoOptions]]
    /\ strategies = [n \in StrategyNames |-> "fs"]
    /\ cgroup = [a \in {A1} |->
                   [value |-> DsnC, ctx |-> 2, cancelled |-> {1},
                    sqlDriver |-> [driver |-> "pq", options |-> NoOptions],
                    mu |-> "free", forceKill |-> FALSE,
                    conns |-> [i \in 1..(CloseConns - k) |-> k + i]]]
    /\ run = [a \in Addrs |-> IF a = A1 THEN [NoRun EXCEPT !.pc = "select"] ELSE NoRun]
    /\ cl = [p \in Clients |-> Idle]
    /\ mc = [c \in 1..CloseConns |->
               IF c <= k
               THEN [cg |-> A1, ctx |-> 1, dsn |-> DsnA, closed |-> FALSE,
                     reset |-> TRUE, ver |-> 1, inc |-> 1]
               ELSE [cg |-> A1, ctx |-> 2, dsn |-> DsnC, closed |-> FALSE,
                     reset |-> FALSE, ver |-> 2, inc |-> 1]]
    /\ hist = [a \in Addrs |-> IF a = A1 THEN <<DsnA, DsnC>> ELSE <<>>]
    /\ watchCalls = [a \in Addrs |-> IF a = A1 THEN 1 ELSE 0]
    /\ started = [a \in Addrs |-> IF a = A1 THEN 1 ELSE 0]
    /\ logs = [a \in Addrs |-> IF a = A1 THEN 1 ELSE 0]
    /\ delivered = 1
    /\ panics = {}
    /\ parentDone = FALSE
    /\ dueOpens = {}

NextClose ==
  \/ \E p \in Clients, c \in 1..CloseConns : CloseCall(p, c)
  \/ \E g \in Goroutines : afterClose(g)
  \/ \E a \in Addrs, v \in Values : runSelect(a, v)
  \/ \E a \in Addrs : valueChanged(a)
  \/ \E a \in Addrs : resetConnections(a)
  \/ \E a \in Addrs : valueChangedReturn(a) /\ UNCHANGED dueOpens

SpecClose == InitClose /\ [][NextClose]_vars

\* ================================================================ claims
Last(seq) == seq[Len(seq)]

\* The merge of value v with the driver options of the chanGroup of a.
Merged(a, v) == mergeConnectionStringOptions(v, cgroup[a].sqlDriver.options)

\* A swap of the chanGroup of a is under way: valueChanged holds cg.mu.
Swapping(a) == cgroup[a].mu = a

\* ---------------------------------------------------------------- C1
\* C1: once run has processed the n-th changed value, every Open passes the
\* underlying driver the merge of that n-th value (the last value processed
\* when it runs), never of the one before: the string in the hands of the
\* driver is the merge of the last value of hist, and every connection made
\* was opened with the merge of the value that was the last one then.
C1_OpenUsesLatestUpdate ==
  /\ \A p \in Clients :
       cl[p].pc = "driverOpen" =>
         LET m == Merged(cl[p].name, Last(hist[cl[p].name]))
         IN  ~m.err /\ cl[p].dsn = m.dsn
  /\ \A c \in DOMAIN mc :
       LET a == mc[c].cg
           m == Merged(a, hist[a][mc[c].ver])
       IN  /\ ~m.err
           /\ mc[c].dsn = m.dsn
           /\ mc[c].ver > 1 => mc[c].dsn # Merged(a, hist[a][mc[c].ver - 1]).dsn

\* A connection opened after the second changed value of its address.
C1_Witness == \E c \in DOMAIN mc : mc[c].ver = 3 /\ mc[c].dsn = Merged(mc[c].cg, DsnA).dsn

\* ---------------------------------------------------------------- C2
\* C2 as stated: every connection a chanGroup opened before a swap that has
\* returned is marked invalid.
C2_AllEarlierInvalid ==
  \A c \in DOMAIN mc : mc[c].ver < Len(hist[mc[c].cg]) => mc[c].reset

\* C2 amended: when a swap returns, every connection that was in cg.conns when
\* it ran is marked invalid (one its holder had closed before is not in
\* cg.conns and stays unmarked); a connection opened after the last swap is
\* not marked invalid while no later swap is under way.
C2_OutstandingInvalidated ==
  /\ [][\A a \in DOMAIN cgroup :
          hist'[a] # hist[a] =>
            \A i \in DOMAIN cgroup[a].conns : mc'[cgroup[a].conns[i]].reset]_vars
  /\ [](\A c \in DOMAIN mc :
          (mc[c].ver = Len(hist[mc[c].cg]) /\ ~Swapping(mc[c].cg)) => ~mc[c].reset)

\* One chanGroup with a connection from before its swap, marked invalid, and a
\* connection opened after it, not marked.
C2_Witness ==
  \E c1, c2 \in DOMAIN mc :
    /\ mc[c1].cg = mc[c2].cg
    /\ mc[c1].ver = 1 /\ mc[c1].reset
    /\ mc[c2].ver = 2 /\ ~mc[c2].reset
    /\ Len(hist[mc[c1].cg]) = 2

\* ---------------------------------------------------------------- C3
\* The run goroutine of a is inside chanGroup.remove, called from the Close
\* that resetConnections made, waiting for the cg.mu that its own
\* valueChanged holds: it waits for ever.
SwapBlocked(a) == run[a].pc \in CloseOrders /\ ~removeLock(a) /\ Swapping(a)

\* C3: with forceKill=true and a connection outstanding the swap completes;
\* the Close it makes, whose afterClose callback removes the connection from
\* cg.conns, does not block it.
C3_ForceKillSwapNotBlocked == \A a \in DOMAIN cgroup : ~SwapBlocked(a)

\* ---------------------------------------------------------------- C4
\* Client p is in the step of a Close it called on c that closes the
\* underlying connection.
HolderCloses(p, c) ==
  \/ cl[p].pc = "idle" /\ cl'[p].pc = "afterClose_2" /\ cl'[p].conn = c
  \/ cl[p].pc = "afterClose_1" /\ cl[p].conn = c /\ cl'[p].pc = "idle"

\* C4: with forceKill=false no step of the run goroutine closes an underlying
\* connection; an underlying connection of such a chanGroup is closed only by a
\* Close its holder called.
C4_NoKillWithoutForceKill ==
  [][\A c \in DOMAIN mc :
       (~cgroup[mc[c].cg].forceKill /\ ~mc[c].closed /\ mc'[c].closed) =>
         /\ run' = run
         /\ \E p \in Clients : HolderCloses(p, c)]_vars

\* A connection from before a swap, marked invalid by it and still open.
C4_Witness ==
  \E c \in DOMAIN mc :
    /\ ~cgroup[mc[c].cg].forceKill
    /\ mc[c].ver < Len(hist[mc[c].cg])
    /\ mc[c].reset /\ ~mc[c].closed

\* ---------------------------------------------------------------- C5
\* C5 as stated: for one address Watch is invoked once.
C5_WatchInvokedOnce == \A a \in Addrs : watchCalls[a] <= 1

\* C5 amended: for one address at most one Watch call succeeds and at most one
\* run goroutine is started, whatever the interleaving of the Opens (a Watch
\* that fails starts nothing, and the next Open calls Watch again): no two
\* callers are inside Watch at once, none is inside Watch for an address that
\* has a chanGroup, and every connection of an address comes from the
\* chanGroup of its one run goroutine.
C5_OneMonitorPerAddress ==
  /\ \A a \in Addrs : started[a] = IF a \in DOMAIN cgroup THEN 1 ELSE 0
  /\ \A p, q \in Clients : (cl[p].pc = "Watch" /\ cl[q].pc = "Watch") => p = q
  /\ \A p \in Clients : cl[p].pc = "Watch" => cl[p].name \notin DOMAIN cgroup
  /\ \A c \in DOMAIN mc : mc[c].inc = 1

\* Two concurrent Opens of one address: one inside the driver's Open, on the
\* chanGroup it or an earlier call created, the other waiting its turn.
C5_Witness ==
  \E p, q \in Clients :
    /\ p # q /\ cl[p].name = cl[q].name
    /\ cl[p].pc = "driverOpen" /\ cl[q].pc = "Lock"
    /\ started[cl[p].name] = 1

\* ---------------------------------------------------------------- C6
HasPair(query, k, v) == \E i \in DOMAIN query : query[i] = <<k, v>>

\* C6: the string an Open passes to the underlying driver holds every query
\* parameter of the dispatch address other than forceKill.
C6_QueryForwarded ==
  \A p \in Clients :
    cl[p].pc = "driverOpen" =>
      LET vs == ParseQuery(urlParse(cl[p].name).RawQuery) IN
      \A k \in DOMAIN vs \ {const_forceKill} :
        \A j \in DOMAIN vs[k] : HasPair(cl[p].dsn.query, k, vs[k][j])

\* ---------------------------------------------------------------- C7
\* C7: a received value equal to the current one is ignored. A swap is only
\* ever under way for a value that differs from the current one, so the values
\* a chanGroup has held never repeat back to back and each change is logged
\* once; the step that receives an equal value changes nothing of the
\* chanGroups, the connections, the contexts or the log.
C7_SameValueIgnored ==
  /\ [](\A a \in DOMAIN cgroup :
          /\ run[a].pc # "select" => run[a].v # cgroup[a].value
          /\ \A i \in 1..(Len(hist[a]) - 1) : hist[a][i] # hist[a][i + 1]
          /\ logs[a] = Len(hist[a]) - 1)
  /\ [][(delivered' # delivered /\ run' = run) =>
          UNCHANGED <<cgroup, mc, hist, logs>>]_vars

\* Two values were received by the one chanGroup there is, one of them equal
\* to the value current then: one log event, and its outstanding connection is
\* not invalid.
C7_Witness ==
  \E a \in DOMAIN cgroup :
    /\ DOMAIN cgroup = {a}
    /\ delivered = 2 /\ logs[a] = 1 /\ run[a].pc = "select"
    /\ \E i \in DOMAIN cgroup[a].conns : ~mc[cgroup[a].conns[i]].reset

\* ---------------------------------------------------------------- C8
\* C8: a step of the run goroutine of one address (a swap) leaves the
\* chanGroup of every other address (value, context, connections, lock) and
\* every connection of it as they were.
C8_MonitorsIndependent ==
  [][\A a, b \in DOMAIN cgroup :
       (a # b /\ run'[a] # run[a]) =>
         /\ cgroup'[b] = cgroup[b]
         /\ \A c \in DOMAIN mc : mc[c].cg = b => mc'[c] = mc[c]]_vars

\* Two chanGroups, each with a connection: one has swapped and invalidated
\* its own, the other's is outstanding and valid.
C8_Witness ==
  \E a, b \in DOMAIN cgroup :
    /\ a # b
    /\ Len(hist[a]) = 2 /\ Len(hist[b]) = 1
    /\ \E c \in DOMAIN mc : mc[c].cg = a /\ mc[c].reset
    /\ \E i \in DOMAIN cgroup[b].conns : ~mc[cgroup[b].conns[i]].reset

\* ---------------------------------------------------------------- C9
\* C9: an Open that is inside the underlying driver's Open on one chanGroup
\* does not make an Open for another address that has its chanGroup wait: no
\* such Open is waiting for the package lock then.
C9_NoWaitAcrossMonitors ==
  \A p, q \in Clients :
    ~ /\ cl[p].pc = "driverOpen"
      /\ cl[q].pc = "Lock"
      /\ cl[q].name # cl[p].name
      /\ cl[q].name \in DOMAIN cgroup
      /\ mu = p

\* --------------------------------------------------------------- C10
\* Client p is inside a Watch that never returns.
Stuck(p) == cl[p].pc = "Watch" /\ WatchNeverReturns(urlParse(cl[p].name).Path)

\* C10 as stated: a Watch that never returns blocks only the Open that called
\* it; no other Open is waiting for the package lock that Open holds.
C10_OtherOpensNotBlocked ==
  \A p, q \in Clients : ~(Stuck(p) /\ mu = p /\ cl[q].pc = "Lock")

\* C10 amended: the Open inside a Watch that never returns holds the package
\* lock for good, so no other Open, for any address, gets past its mu.Lock;
\* the run goroutines do not take that lock: every cg.mu is free or held by
\* its own run goroutine, so a swap that is due can start.
C10_HangBlocksOpensNotSwaps ==
  /\ [](\A p \in Clients :
          Stuck(p) =>
            /\ mu = p
            /\ \A q \in Clients \ {p} : cl[q].pc \in {"idle", "Lock"} \cup CloseOrders
            /\ \A a \in DOMAIN cgroup : cgroup[a].mu \in {"free", a})
  /\ [][\A p \in Clients : Stuck(p) => (cl'[p] = cl[p] /\ mu' = p)]_vars

\* A Watch hangs, another Open waits for the package lock, and a swap of an
\* existing chanGroup is under way.
C10_Witness ==
  \E p, q \in Clients :
    /\ Stuck(p) /\ cl[q].pc = "Lock"
    /\ \E a \in DOMAIN cgroup : run[a].pc = "reset" /\ Swapping(a)

\* --------------------------------------------------------------- C11
\* Client p leaves the lookup of hdriver.Open (lines 301-316) in this step.
LookupStep(p) == cl[p].pc = "Lock" /\ cl'[p].pc # "Lock"

\* C11: for an address without chanGroup, Open returns ErrUnsupportedStrategy
\* when the scheme is not registered, whether the host is or not, and
\* ErrUnknownDriver when the scheme is registered and the host is not; either
\* way no Watch is called and no chanGroup or run goroutine is created.
C11_UnregisteredRejected ==
  [][\A p \in Clients :
       (LookupStep(p) /\ cl[p].name \notin DOMAIN cgroup) =>
         LET uri == urlParse(cl[p].name)
             rejected(err) == /\ cl'[p] = Return(err)
                              /\ UNCHANGED <<cgroup, watchCalls, started, run, mu>>
         IN  /\ uri.Scheme \notin DOMAIN strategies => rejected("ErrUnsupportedStrategy")
             /\ (uri.Scheme \in DOMAIN strategies /\ uri.Host \notin DOMAIN sqlDrivers)
                  => rejected("ErrUnknownDriver")]_vars

\* Both errors have been returned (the driver is still not registered); there
\* is no chanGroup and there was no Watch.
C11_Witness ==
  \E p, q \in Clients :
    /\ cl[p].err = "ErrUnsupportedStrategy" /\ cl[q].err = "ErrUnknownDriver"
    /\ DOMAIN strategies # {} /\ DOMAIN sqlDrivers = {}
    /\ DOMAIN cgroup = {} /\ \A a \in Addrs : watchCalls[a] = 0

\* --------------------------------------------------------------- C12
\* C12: when the Watch of an Open fails, the Open returns that error, the
\* chanGroup table is as it was, without an entry for the address, no run
\* goroutine is started and the package lock is free; and every Open that
\* finds no chanGroup for its address, with strategy and driver registered,
\* calls Watch, whatever failed before.
C12_WatchFailureLeavesNothing ==
  [][\A p \in Clients :
       /\ (cl[p].pc = "Watch" /\ cl'[p].pc = "idle") =>
            /\ cl'[p].err = "watchErr"
            /\ UNCHANGED <<cgroup, run, started, hist>>
            /\ cl[p].name \notin DOMAIN cgroup'
            /\ mu' = "free"
       /\ (LookupStep(p) /\ cl[p].name \notin DOMAIN cgroup
              /\ lookupErr(urlParse(cl[p].name)) = "") =>
            /\ cl'[p].pc = "Watch"
            /\ watchCalls'[cl[p].name] = watchCalls[cl[p].name] + 1]_vars

\* A Watch failed, its caller has the error, and a later Open of the address
\* called Watch again, which made the chanGroup.
C12_Witness ==
  \E p \in Clients, a \in DOMAIN cgroup :
    /\ cl[p].err = "watchErr"
    /\ DOMAIN cgroup = {a}
    /\ watchCalls[a] = 2 /\ started[a] = 1

\* --------------------------------------------------------------- C13
\* Client p returns from chanGroup.Open with an error in this step.
OpenFailStep(p) ==
  /\ cl[p].pc \in {"cgOpen", "driverOpen"}
  /\ cl'[p].pc = "idle" /\ cl'[p].err # ""

\* C13: a chanGroup.Open that fails returns the merge error or the driver's
\* error, appends nothing to cg.conns and leaves the value, the context and
\* the connections of its chanGroup, every other chanGroup and all the
\* connections as they were; both locks are free again, so the chanGroup stays
\* usable: cg.mu is only ever held by an Open inside the driver's Open or by
\* the chanGroup's own swap.
C13_FailedOpenChangesNothing ==
  /\ [][\A p \in Clients :
          OpenFailStep(p) =>
            LET a == cl[p].name IN
            /\ cl'[p].err = IF cl[p].pc = "cgOpen" THEN "mergeErr" ELSE "driverErr"
            /\ cgroup' = [cgroup EXCEPT ![a].mu = "free"]
            /\ UNCHANGED <<mc, run, hist>>
            /\ mu' = "free"]_vars
  /\ [](\A a \in DOMAIN cgroup :
          \/ cgroup[a].mu = "free"
          \/ Swapping(a)
          \/ cgroup[a].mu \in Clients /\ cl[cgroup[a].mu].pc = "driverOpen"
                /\ cl[cgroup[a].mu].name = a)

\* An Open failed on the merge (the value then was no URL), and after a swap
\* to a URL a later Open of the same chanGroup made a connection.
C13_Witness ==
  \E p \in Clients, a \in DOMAIN cgroup :
    /\ cl[p].err = "mergeErr"
    /\ DOMAIN cgroup = {a}
    /\ \E c \in DOMAIN mc : mc[c].ver = 3 /\ ~mc[c].closed

\* --------------------------------------------------------------- C14
\* C14: the only return of hdriver.Open before mu.Lock is the one for a name
\* that url.Parse rejects, and the error it returns is
\* ErrMalformedConnectionString.
C14_MalformedIsErrMalformed ==
  [][\A p \in Clients :
       (cl[p].pc = "idle" /\ cl'[p].pc = "idle" /\ cl'[p] # cl[p]) =>
         cl'[p].err = "ErrMalformedConnectionString"]_vars

\* --------------------------------------------------------------- C15
\* C15: a registration that panics (nil driver or strategy, or a name
\* registered already) leaves both registries as they were and the package
\* lock free; no entry is ever removed or replaced, none holds nil, and a
\* "called twice" panic is only raised for a name that is registered.
C15_RegistriesAppendOnly ==
  /\ [][panics' # panics =>
          (UNCHANGED <<sqlDrivers, strategies>> /\ mu' = "free")]_vars
  /\ [][/\ \A n \in DOMAIN sqlDrivers :
             n \in DOMAIN sqlDrivers' /\ sqlDrivers'[n] = sqlDrivers[n]
        /\ \A n \in DOMAIN strategies :
             n \in DOMAIN strategies' /\ strategies'[n] = strategies[n]]_vars
  /\ [](/\ \A n \in DOMAIN sqlDrivers : sqlDrivers[n].driver # "nil"
        /\ \A n \in DOMAIN strategies : strategies[n] # "nil"
        /\ \A n \in DriverNames :
             <<"hotload: Register called twice for driver", n>> \in panics
               => n \in DOMAIN sqlDrivers
        /\ \A n \in StrategyNames :
             <<"hotload: RegisterStrategy called twice for strategy", n>> \in panics
               => n \in DOMAIN strategies)

\* All four panics have been raised, each registry holds its one entry, and
\* an Open has made a connection.
C15_Witness ==
  /\ Cardinality(panics) = 4
  /\ DOMAIN sqlDrivers = DriverNames /\ DOMAIN strategies = StrategyNames
  /\ mc # <<>>

\* --------------------------------------------------------------- C16
\* While cg.mu is free every connection in cg.conns is valid and was opened
\* with the merge of the current value; an Open inside the driver's Open holds
\* cg.mu and has the merge of the current value, so it never sees a swap half
\* done.
OpenAndSwapAtomic ==
  /\ \A a \in DOMAIN cgroup :
       cgroup[a].mu = "free" =>
         \A i \in DOMAIN cgroup[a].conns :
           LET c == cgroup[a].conns[i] IN
           /\ ~mc[c].reset
           /\ mc[c].cg = a
           /\ ~Merged(a, cgroup[a].value).err
           /\ mc[c].dsn = Merged(a, cgroup[a].value).dsn
  /\ \A p \in Clients :
       cl[p].pc = "driverOpen" =>
         /\ cgroup[cl[p].name].mu = p
         /\ cl[p].dsn = Merged(cl[p].name, cgroup[cl[p].name].value).dsn

\* The swap of the chanGroup of a returns in this step.
SwapReturns(a) == hist'[a] # hist[a]

\* Connection c of a was opened while the swap that now returns was due.
OpenedDuringSwap(a, c) == mc[c].cg = a /\ c \in dueOpens

\* C16 as stated: the above, and every connection opened while a swap was due
\* (with the old value) is invalid when that swap has returned.
C16_ConcurrentOpenInvalidated ==
  /\ []OpenAndSwapAtomic
  /\ [][\A a \in DOMAIN cgroup : \A c \in DOMAIN mc :
          (SwapReturns(a) /\ OpenedDuringSwap(a, c)) => mc'[c].reset]_vars

\* C16 amended: the above, and a connection opened while a swap was due is,
\* when that swap has returned, invalid if it was still in cg.conns when the
\* swap ran; otherwise its holder had closed it before the swap took cg.mu,
\* and the swap leaves it unmarked.
C16_ConcurrentOpenInvalidatedOrClosed ==
  /\ []OpenAndSwapAtomic
  /\ [][\A a \in DOMAIN cgroup : \A c \in DOMAIN mc :
          (SwapReturns(a) /\ OpenedDuringSwap(a, c)) =>
            IF \E i \in DOMAIN cgroup[a].conns : cgroup[a].conns[i] = c
            THEN mc'[c].reset
            ELSE mc[c].closed /\ ~mc'[c].reset]_vars

\* A swap is about to return; of two connections opened while it was due,
\* with the old value, it has invalidated one, and the other was closed before
\* it took cg.mu and is not marked.
C16_Witness ==
  \E c1, c2 \in DOMAIN mc :
    /\ mc[c1].cg = mc[c2].cg
    /\ run[mc[c1].cg].pc = "reset" /\ ~resetMore(mc[c1].cg)
    /\ c1 \in dueOpens /\ c2 \in dueOpens
    /\ mc[c1].reset /\ ~mc[c2].reset /\ mc[c2].closed

\* --------------------------------------------------------------- C17
\* Goroutine g is inside a Close of connection c.
Closing(g, c) == ClosePc(g) \in CloseOrders /\ CloseConn(g) = c

\* cg.conns holds no connection twice, only connections of its chanGroup
\* opened since its last swap, and none that is closed with no Close of it
\* under way.
ConnsCurrent ==
  \A a \in DOMAIN cgroup :
    \A i \in DOMAIN cgroup[a].conns :
      LET c == cgroup[a].conns[i] IN
      /\ \A j \in DOMAIN cgroup[a].conns : cgroup[a].conns[j] = c => j = i
      /\ mc[c].cg = a /\ mc[c].ver = Len(hist[a])
      /\ mc[c].closed => \E g \in Goroutines : Closing(g, c)

\* C17: the step in which a holder's Close of c removes it takes exactly c out
\* of the cg.conns of its chanGroup, the others staying in their order, and
\* touches no other chanGroup; by ConnsCurrent a connection closed before, or
\* dropped by a swap, is not in cg.conns, so its Close changes nothing there
\* and never removes a connection opened after the swap.
C17_CloseRemovesOnlyItself ==
  /\ []ConnsCurrent
  /\ [][\A p \in Clients :
          (cl[p].pc \in CloseOrders /\ cl'[p].pc = "idle") =>
            LET c == cl[p].conn
                a == mc[c].cg
            IN  /\ cgroup'[a].conns = SelectSeq(cgroup[a].conns, LAMBDA x : x # c)
                /\ \A b \in DOMAIN cgroup \ {a} : cgroup'[b] = cgroup[b]
                /\ (mc[c].ver < Len(hist[a]) \/ mc[c].reset)
                     => cgroup'[a].conns = cgroup[a].conns]_vars

\* Of three connections opened after the swap the middle one was closed, the
\* other two are in cg.conns in their order; a connection the swap had dropped
\* was closed too.
C17_Witness ==
  \E a \in DOMAIN cgroup :
    /\ Len(cgroup[a].conns) = 2
    /\ \E c \in DOMAIN mc :
         /\ cgroup[a].conns = <<c - 1, c + 1>>
         /\ mc[c].closed /\ mc[c].ver = Len(hist[a])
    /\ \E d \in DOMAIN mc : mc[d].reset /\ mc[d].closed /\ mc[d].ver = 1
    /\ \A p \in Clients : cl[p].pc = "idle"

\* --------------------------------------------------------------- C18
\* The swap of the chanGroup of a starts in this step: valueChanged has
\* cg.mu, has cancelled the context and derived the new one.
SwapStarts(a) == run[a].pc = "valueChanged" /\ run'[a].pc = "reset"

\* C18: the step that starts a swap cancels the context that was in use and
\* puts a new one, not cancelled by it, in its place; so the context of every
\* connection opened before a swap that has returned was cancelled by that
\* swap, and, while hdriver.ctx is not cancelled, the context of a connection
\* opened since the last swap is not done (outside the next swap).
C18_SwapReplacesContext ==
  /\ [][\A a \in DOMAIN cgroup :
          SwapStarts(a) =>
            /\ cgroup[a].ctx \in cgroup'[a].cancelled
            /\ cgroup'[a].ctx # cgroup[a].ctx
            /\ cgroup'[a].ctx \notin cgroup'[a].cancelled]_vars
  /\ [](\A c \in DOMAIN mc :
          LET a == mc[c].cg IN
          /\ mc[c].ver < Len(hist[a]) => mc[c].ctx \in cgroup[a].cancelled
          /\ (mc[c].ver = Len(hist[a]) /\ ~Swapping(a) /\ ~parentDone)
               => ~ctxDone(a, mc[c].ctx))

\* One chanGroup after a swap, hdriver.ctx live: a connection from before the
\* swap, its context cancelled, and one opened after it, its context live.
C18_Witness ==
  \E c1, c2 \in DOMAIN mc :
    /\ mc[c1].cg = mc[c2].cg /\ ~parentDone /\ ~Swapping(mc[c1].cg)
    /\ mc[c1].ver = 1 /\ mc[c2].ver = 2 /\ Len(hist[mc[c1].cg]) = 2
    /\ ctxDone(mc[c1].cg, mc[c1].ctx) /\ ~ctxDone(mc[c2].cg, mc[c2].ctx)

\* --------------------------------------------------------------- C19
\* The run goroutine of a has handled the cancellation of hdriver.ctx.
Terminated(a) == run[a].pc = "done"

\* What C19 says of the terminal state and of swaps after the cancellation:
\* once run has handled the cancellation the context of the chanGroup is
\* cancelled, run stays returned, and no step changes the value or marks a
\* connection of the chanGroup invalid; a swap that starts when hdriver.ctx is
\* cancelled installs a context that is done.
TerminalForGood ==
  /\ [](\A a \in DOMAIN cgroup :
          Terminated(a) => (parentDone /\ cgroup[a].ctx \in cgroup[a].cancelled))
  /\ [][\A a \in DOMAIN cgroup :
          /\ Terminated(a) =>
               /\ run'[a] = run[a]
               /\ cgroup'[a].value = cgroup[a].value
               /\ \A c \in DOMAIN mc : mc[c].cg = a => mc'[c].reset = mc[c].reset
          /\ (parentDone /\ SwapStarts(a)) => ctxDone(a, cgroup[a].ctx)']_vars

\* C19: the above, and once hdriver.ctx is cancelled every run goroutine
\* that was started reaches the terminal state.
C19_ParentCancelTerminates ==
  /\ TerminalForGood
  /\ \A a \in Addrs : (parentDone /\ run[a].pc # "none") ~> Terminated(a)

\* --------------------------------------------------------------- C20
\* The package lock is only requested by a goroutine that holds no cg.mu,
\* and a caller that holds a cg.mu holds the package lock: the one nesting
\* is package lock, then cg.mu (chanGroup.remove and valueChanged take cg.mu
\* alone and ask for no other lock while they hold it).
LockOrder ==
  /\ \A p \in Clients :
       cl[p].pc = "Lock" => \A a \in DOMAIN cgroup : cgroup[a].mu # p
  /\ \A a \in DOMAIN cgroup :
       /\ cgroup[a].mu \in Clients => mu = cgroup[a].mu
       /\ Swapping(a) => run[a].pc = "reset"

\* C20: without forceKill, with strategy and driver calls that return, the
\* locks are taken in the one order and every Open, Close and swap that has
\* started completes.
C20_NoDeadlock ==
  /\ []LockOrder
  /\ \A p \in Clients : (cl[p].pc # "idle") ~> (cl[p].pc = "idle")
  /\ \A a \in LiveNames : SwapDue(a) ~> (run[a].pc = "select")

\* Everything contends: a swap is due and waits for the cg.mu that an Open
\* inside the driver holds, with the package lock, for which the other caller
\* waits; a connection is outstanding.
C20_Witness ==
  \E p, q \in Clients, a \in DOMAIN cgroup :
    /\ ~cgroup[a].forceKill
    /\ cl[p].pc = "driverOpen" /\ cl[p].name = a /\ cgroup[a].mu = p /\ mu = p
    /\ cl[q].pc = "Lock"
    /\ SwapDue(a)
    /\ cgroup[a].conns # <<>>

====
